---- MODULE Spec2Model ----
(***************************************************************************)
(* Model of the AppSync third party gateway (src/gateway-lambda).          *)
(*                                                                         *)
(* One Lambda process serves NInv handler invocations.  Each invocation    *)
(* runs handler (index.js 188-195): the cold-start guard around            *)
(* createApolloServer, then the Apollo request pipeline with the context   *)
(* function, the resolvers and formatError of index.js and the             *)
(* errorTracker hooks of plugins.js.                                       *)
(*                                                                         *)
(* The fields of the event are drawn when the pipeline first reads them    *)
(* (the header in the context function, the document when it is parsed):   *)
(* nothing before that point depends on them.                              *)
(***************************************************************************)
EXTENDS Integers, Sequences, FiniteSets, TLC

\* Number of handler invocations the process receives.
NInv == 2

Inv == 1..NInv

VARIABLES
  apolloHandler,   \* index.js:186  Undefined until a handler is stored in it
  discoveries,     \* number of introspectSchema calls started (index.js:46)
  pc,              \* per invocation: where it is in handler / the pipeline
  authorization,   \* per invocation: express.req.headers.authorization
  lookups,         \* per invocation: the credential-store reads made
  context,         \* per invocation: the value the context function returned
  request,         \* per invocation: the document and operationName sent
  flags,           \* per invocation: the three closure flags of errorTracker
  operationName,   \* per invocation: requestContext.operationName
  resolved,        \* per invocation: resolvers that ran (field names)
  backendCalls,    \* per invocation: delegated calls made to the backend
  backendResult,   \* per invocation: what the backend answered
  errors,          \* per invocation: requestContext.errors
  errorClass,      \* per invocation: the class the pipeline gives those errors
  captured,        \* per invocation: errors given to captureException
  flushes,         \* per invocation: flush() calls
  flushed,         \* per invocation: flush() calls that have settled
  response         \* per invocation: what the caller receives

vars == <<apolloHandler, discoveries, pc, authorization, lookups, context,
          request, flags, operationName, resolved, backendCalls,
          backendResult, errors, errorClass, captured, flushes, flushed,
          response>>

----------------------------------------------------------------------------
(* Values *)

Null == "null"
Undefined == "undefined"

\* extensions.code values
APPSYNC_PASSTHROUGH_ERROR == "APPSYNC_PASSTHROUGH_ERROR"
INTERNAL_SERVER_ERROR == "INTERNAL_SERVER_ERROR"
UNAUTHENTICATED == "UNAUTHENTICATED"

GenericMessage == "Internal Server Error"
MissingHeaderMessage == "Missing authorization header"
InvalidHeaderMessage == "Invalid authorization header"

\* An extensions object with no keys.
EmptyExt == [k \in {} |-> ""]

\* apolloServer.createHandler(): every server built from the same code and
\* backend schema handles events alike.
CreatedHandler == "apolloHandler"

\* The affinity argument the resolvers add.
AffinityKey == "affinity"

----------------------------------------------------------------------------
(* The authorization header and the credential store *)

\* A header is absent, or a string (a sequence of characters).
NoHeader == [present |-> FALSE, value |-> <<>>]
Header(chars) == [present |-> TRUE, value |-> chars]

\* The headers a caller may send: none, empty, a known key with surrounding
\* whitespace, a key with no record, a key whose record has an empty
\* affinity.
Headers ==
  { NoHeader,
    Header(<<>>),
    Header(<<" ", "a", " ">>),
    Header(<<"b">>),
    Header(<<"c">>) }

\* String.prototype.trim on a sequence of characters.
RECURSIVE TrimStart(_)
TrimStart(s) ==
  IF s # <<>> /\ Head(s) = " " THEN TrimStart(Tail(s)) ELSE s

RECURSIVE TrimEnd(_)
TrimEnd(s) ==
  IF s # <<>> /\ s[Len(s)] = " " THEN TrimEnd(SubSeq(s, 1, Len(s) - 1)) ELSE s

Trim(s) == TrimEnd(TrimStart(s))

\* JavaScript truthiness of the header value: undefined and "" are falsy.
Truthy(h) == h.present /\ h.value # <<>>

\* The ApiUsersTable: the record (Item) stored under an apiKey, if any.
NoItem == [has |-> FALSE, affinity |-> ""]
Item(aff) == [has |-> TRUE, affinity |-> aff]

ApiUsersTable(apiKey) ==
  IF apiKey = <<"a">> THEN Item("dev-42")
  ELSE IF apiKey = <<"c">> THEN Item("")
  ELSE NoItem

\* getAffinityFromApiKey, given the record the store returned:
\* apiKeyRecord.Item?.affinity || null
getAffinityFromApiKey(item) ==
  IF item.has /\ item.affinity # "" THEN item.affinity ELSE Null

----------------------------------------------------------------------------
(* Errors *)

\* An error object: its class, message, path, locations, extensions
\* (hasExt says whether the extensions property exists) and whether it
\* carries a stack.
Err(cls, message, path, locations, hasExt, ext, stack) ==
  [cls |-> cls, message |-> message, path |-> path, locations |-> locations,
   hasExt |-> hasExt, ext |-> ext, stack |-> stack]

NoError == Err("none", "", <<>>, "", FALSE, EmptyExt, FALSE)

\* new AuthenticationError(message): an ApolloError with code UNAUTHENTICATED.
AuthenticationError(message) ==
  Err("AuthenticationError", message, <<>>, "", TRUE,
      [code |-> "UNAUTHENTICATED"], TRUE)

\* new Error(message), and any other thrown value that is not one of
\* Apollo's subclassed errors.
PlainError(message) ==
  Err("Error", message, <<>>, "", FALSE, EmptyExt, TRUE)

\* graphql's error for a document that does not parse, as the hooks see it:
\* a GraphQLError without extensions (plugins.js 60-66).
ParseFailure ==
  Err("GraphQLError", "Syntax Error: Unexpected Name", <<>>, "1:1", FALSE,
      EmptyExt, TRUE)

\* graphql's error for a document that does not validate, as the hooks see it.
ValidationFailure ==
  Err("GraphQLError", "Cannot query field", <<>>, "1:3", FALSE, EmptyExt, TRUE)

\* The extensions.code of Apollo's subclassed errors.
ClassCode(cls) ==
  IF cls = "SyntaxError" THEN "GRAPHQL_PARSE_FAILED"
  ELSE IF cls = "ValidationError" THEN "GRAPHQL_VALIDATION_FAILED"
  ELSE IF cls = "UserInputError" THEN "BAD_USER_INPUT"
  ELSE IF cls = "AuthenticationError" THEN UNAUTHENTICATED
  ELSE INTERNAL_SERVER_ERROR

\* What execution reports when no operation could be selected.
OperationError ==
  Err("GraphQLError", "Must provide operation name", <<>>, "", FALSE,
      EmptyExt, TRUE)

\* The storage-layer fault a rejected ddbDocClient.get(...).promise() throws.
LookupFault == PlainError("ProvisionedThroughputExceededException")

\* The exception a failed fetch / fetchResult.json() throws in the executor.
TransportFault == PlainError("request to APPSYNC_URL failed")

\* What a rejected flush() of an error tracking service throws.
FlushFault == PlainError("flush timed out")

\* extensions.code of an error, undefined when there is none (err.extensions?.code).
CodeOf(err) ==
  IF err.hasExt /\ "code" \in DOMAIN err.ext THEN err.ext["code"] ELSE Undefined

\* obj with key k removed (delete obj[k]).
Without(obj, k) == [x \in (DOMAIN obj) \ {k} |-> obj[x]]

\* { ...obj, [k]: v }
With(obj, k, v) == [x \in (DOMAIN obj) \cup {k} |-> IF x = k THEN v ELSE obj[x]]

----------------------------------------------------------------------------
(* The backend and the Result Transform *)

\* Errors the backend returns in its GraphQL error list: one without
\* extensions, one with extensions that include a code of the backend's own.
BackendError1 ==
  Err("GraphQLError", "Not Found", <<"sayHello">>, "2:3", FALSE, EmptyExt, FALSE)

BackendError2 ==
  Err("GraphQLError", "Conflict", <<"someRandomMutation">>, "1:12", TRUE,
      [errorType |-> "ConflictException", code |-> "CONFLICT"], FALSE)

\* A result of the remote executor: data, or an error list.
Result(data, hasErrors, errs) ==
  [data |-> data, hasErrors |-> hasErrors, errors |-> errs]

NoResult == Result(Null, FALSE, <<>>)

BackendResults ==
  { Result("hello", FALSE, <<>>),
    Result(Null, TRUE, <<BackendError1>>),
    Result(Null, TRUE, <<BackendError2>>) }

\* The error the transform builds from one backend error:
\* new GraphQLError(message, nodes, source, positions, path, originalError,
\*                  { ...error.extensions, code: "APPSYNC_PASSTHROUGH_ERROR" })
\* nodes, source and positions are what an error's locations are made of.
PassThroughError(error) ==
  Err("GraphQLError", error.message, error.path, error.locations, TRUE,
      With(IF error.hasExt THEN error.ext ELSE EmptyExt,
           "code", APPSYNC_PASSTHROUGH_ERROR),
      TRUE)

\* appSyncPassThroughErrorTransform.transformResult
transformResult(originalResult) ==
  IF originalResult.hasErrors
    THEN [originalResult EXCEPT
            !.errors = [n \in DOMAIN originalResult.errors |->
                          PassThroughError(originalResult.errors[n])]]
    ELSE originalResult

----------------------------------------------------------------------------
(* Final formatting *)

\* What Apollo hands to formatError: the error with extensions.code set
\* (the error's own code, INTERNAL_SERVER_ERROR for any error that is not
\* one of Apollo's subclassed errors) and extensions.exception added.
Enrich(err) ==
  [err EXCEPT
     !.hasExt = TRUE,
     !.ext = With(With(IF err.hasExt THEN err.ext ELSE EmptyExt,
                       "code",
                       IF CodeOf(err) = Undefined THEN INTERNAL_SERVER_ERROR
                                                  ELSE CodeOf(err)),
                  "exception", "details")]

\* StripInternals without the second delete.
StripInternalsKeepException(err) == [err EXCEPT !.stack = FALSE]

\* delete err.stack; delete err.extensions?.exception
StripInternals(err) ==
  [err EXCEPT !.stack = FALSE,
              !.ext = IF err.hasExt THEN Without(err.ext, "exception") ELSE err.ext]

\* DropPassThrough without the test of the code: extensions always deleted.
DropPassThroughAnyCode(err) == [err EXCEPT !.hasExt = FALSE, !.ext = EmptyExt]

\* if (err.extensions?.code === "APPSYNC_PASSTHROUGH_ERROR") delete err.extensions
DropPassThrough(err) ==
  IF CodeOf(err) = APPSYNC_PASSTHROUGH_ERROR
    THEN [err EXCEPT !.hasExt = FALSE, !.ext = EmptyExt]
    ELSE err

\* MaskInternal with the INTERNAL_SERVER_ERROR branch left out.
MaskInternalNever(err) == err

\* MaskInternal that rewrites the message and keeps the extensions.
MaskInternalKeepExtensions(err) ==
  IF CodeOf(err) = INTERNAL_SERVER_ERROR
    THEN [err EXCEPT !.message = GenericMessage]
    ELSE err

\* if (err.extensions?.code === "INTERNAL_SERVER_ERROR") mask the message
MaskInternal(err) ==
  IF CodeOf(err) = INTERNAL_SERVER_ERROR
    THEN [err EXCEPT !.message = GenericMessage, !.hasExt = FALSE, !.ext = EmptyExt]
    ELSE err

\* formatError
formatError(err) == MaskInternal(DropPassThrough(StripInternals(err)))

\* The pipeline's conversion of a parse or validation error to the class of
\* its stage (SyntaxError, ValidationError); other errors keep their class.
Classify(err, cls) ==
  IF cls = Undefined THEN err
  ELSE [err EXCEPT !.cls = cls, !.hasExt = TRUE,
                   !.ext = With(IF err.hasExt THEN err.ext ELSE EmptyExt,
                                "code", ClassCode(cls))]

\* The error list of the response: each error classified and enriched, then
\* given to formatError.
FormatErrors(errs, cls) ==
  [n \in DOMAIN errs |-> formatError(Enrich(Classify(errs[n], cls)))]

----------------------------------------------------------------------------
(* Requests *)

\* One operation definition of a document.
Op(name, operation, fieldName, args) ==
  [name |-> name, operation |-> operation, fieldName |-> fieldName, args |-> args]

HelloOp(name) == Op(name, "query", "sayHello", [name |-> "x"])
MutationOp(name) ==
  Op(name, "mutation", "someRandomMutation", [name |-> "y", affinity |-> "evil"])

\* A request: whether its document parses and validates, its operation
\* definitions, and the operationName sent with it (Undefined when none).
Req(query, syntaxOk, validOk, operations, opName) ==
  [query |-> query, syntaxOk |-> syntaxOk, validOk |-> validOk,
   operations |-> operations, operationName |-> opName]

\* The request of an invocation whose document has not been read yet.
NoRequest == Req(Undefined, FALSE, FALSE, <<>>, Undefined)

Requests ==
  { Req("{ sayHello(", FALSE, FALSE, <<>>, Undefined),
    Req("{ sayGoodbye }", TRUE, FALSE, <<HelloOp(Undefined)>>, Undefined),
    Req("{ sayHello(name: x) }", TRUE, TRUE, <<HelloOp(Undefined)>>, Undefined),
    Req("query A { sayHello } mutation B { someRandomMutation }", TRUE, TRUE,
        <<HelloOp("A"), MutationOp("B")>>, Undefined),
    Req("query A { sayHello } mutation B { someRandomMutation }", TRUE, TRUE,
        <<HelloOp("A"), MutationOp("B")>>, "B"),
    Req("query A { sayHello }", TRUE, TRUE, <<HelloOp("A")>>, "Z") }

\* graphql's getOperationAST: the index of the selected operation definition,
\* 0 when none is selected.
RECURSIVE ScanOperations(_, _, _, _)
ScanOperations(operations, opName, n, found) ==
  IF n > Len(operations) THEN found
  ELSE IF opName = Undefined
    THEN IF found # 0 THEN 0
         ELSE ScanOperations(operations, opName, n + 1, n)
  ELSE IF operations[n].name = opName THEN n
  ELSE ScanOperations(operations, opName, n + 1, found)

getOperationAST(req) == ScanOperations(req.operations, req.operationName, 1, 0)

\* requestContext.operationName as the pipeline sets it before
\* didResolveOperation: operation?.name?.value || null
ResolvedOperationName(req) ==
  LET n == getOperationAST(req) IN
    IF n # 0 /\ req.operations[n].name # Undefined
      THEN req.operations[n].name
      ELSE Null

\* ForwardedArgs with the spread last: { affinity: context.affinity, ...args }
ForwardedArgsCallerWins(args, ctx) ==
  [x \in (DOMAIN args) \cup {AffinityKey} |->
     IF x \in DOMAIN args THEN args[x] ELSE ctx.affinity]

\* The arguments a resolver forwards: { ...args, affinity: context.affinity }
ForwardedArgs(args, ctx) == With(args, AffinityKey, ctx.affinity)

----------------------------------------------------------------------------
(* The context function *)

Context(hasAffinity, affinity, hasContextError, contextError) ==
  [hasAffinity |-> hasAffinity, affinity |-> affinity,
   hasContextError |-> hasContextError, contextError |-> contextError]

NoContext == Context(FALSE, Undefined, FALSE, NoError)

\* return { affinity }
AffinityContext(affinity) == Context(TRUE, affinity, FALSE, NoError)

\* ErrorContext that drops the caught error: catch (err) { return {} }.
ErrorContextDropped(err) == NoContext

\* return { contextError: err }
ErrorContext(err) == Context(FALSE, Undefined, TRUE, err)

\* One read of the credential store: the key, whether the read was rejected,
\* and what getAffinityFromApiKey returned when it was not.
Lookup(apiKey, rejected, affinity) ==
  [apiKey |-> apiKey, rejected |-> rejected, affinity |-> affinity]

\* !affinity
Falsy(affinity) == affinity = Null \/ affinity = ""

\* contextFn with the store read moved before the header check: a missing
\* header makes apiKey.trim() throw a TypeError, an empty one is looked up.
contextFnLookupFirst(h, storeUp) ==
  IF ~h.present
    THEN [context |-> ErrorContext(PlainError("Cannot read property 'trim' of undefined")),
          lookups |-> <<>>]
  ELSE IF ~storeUp
    THEN [context |-> ErrorContext(LookupFault),
          lookups |-> <<Lookup(Trim(h.value), TRUE, Undefined)>>]
  ELSE LET affinity == getAffinityFromApiKey(ApiUsersTable(Trim(h.value))) IN
         [context |->
            IF Falsy(affinity)
              THEN ErrorContext(AuthenticationError(InvalidHeaderMessage))
              ELSE AffinityContext(affinity),
          lookups |-> <<Lookup(Trim(h.value), FALSE, affinity)>>]

\* The context function (index.js 115-145) for header h; storeUp says
\* whether the credential-store read succeeds.  It yields the context and
\* the store reads it made.
contextFn(h, storeUp) ==
  IF ~Truthy(h)
    THEN [context |-> ErrorContext(AuthenticationError(MissingHeaderMessage)),
          lookups |-> <<>>]
  ELSE IF ~storeUp
    THEN [context |-> ErrorContext(LookupFault),
          lookups |-> <<Lookup(Trim(h.value), TRUE, Undefined)>>]
  ELSE LET affinity == getAffinityFromApiKey(ApiUsersTable(Trim(h.value))) IN
         [context |->
            IF Falsy(affinity)
              THEN ErrorContext(AuthenticationError(InvalidHeaderMessage))
              ELSE AffinityContext(affinity),
          lookups |-> <<Lookup(Trim(h.value), FALSE, affinity)>>]

----------------------------------------------------------------------------
(* The errorTracker plugin *)

Flags(p, v, u) ==
  [graphqlParsingFailure |-> p, graphqlValidationFailure |-> v,
   graphqlUnknownOperationName |-> u]

NoFlags == Flags(FALSE, FALSE, FALSE)

\* ctx.context.contextError instanceof AuthenticationError
IsAuthenticationError(err) == err.cls = "AuthenticationError"

\* ContextErrorThrown without the instanceof branch: every context error is
\* answered with the generic error.
ContextErrorThrownMasked(err) == PlainError(GenericMessage)

\* What requestDidStart throws for a context error.
ContextErrorThrown(err) ==
  IF IsAuthenticationError(err) THEN err ELSE PlainError(GenericMessage)

\* ContextErrorCaptured without the instanceof branch: every context error
\* is sent to the error tracking service.
ContextErrorCapturedAlways(err) == <<err>>

\* ContextErrorCaptured with the capture left out.
ContextErrorCapturedNever(err) == <<>>

\* What requestDidStart captures for a context error.
ContextErrorCaptured(err) ==
  IF IsAuthenticationError(err) THEN <<>> ELSE <<err>>

\* How many times requestDidStart calls flush for a context error.
ContextErrorFlushes(err) == IF IsAuthenticationError(err) THEN 0 ELSE 1

\* AfterFlushCall for a flush() that is called and not awaited.
AfterFlushCallNotAwaited(calls) == "Formatting"

\* Where a hook is after its flush() calls: await FictionalErrorTrackingService.flush()
\* suspends it until the flush settles.
AfterFlushCall(calls) == IF calls > 0 THEN "Flushing" ELSE "Formatting"

\* The hook parsingDidStart returns.
parsingDidEnd(f, parsingFailed) ==
  IF parsingFailed THEN [f EXCEPT !.graphqlParsingFailure = TRUE] ELSE f

\* The hook validationDidStart returns.
validationDidEnd(f, validationErrors) ==
  IF validationErrors # <<>> THEN [f EXCEPT !.graphqlValidationFailure = TRUE] ELSE f

\* didResolveOperation
didResolveOperation(f, opName) ==
  IF opName = Undefined THEN [f EXCEPT !.graphqlUnknownOperationName = TRUE] ELSE f

\* Suppressed without the parsing flag.
SuppressedNoParsing(f) ==
  f.graphqlValidationFailure \/ f.graphqlUnknownOperationName

\* didEncounterErrors returns early when a flag is set.
Suppressed(f) ==
  f.graphqlParsingFailure \/ f.graphqlValidationFailure
    \/ f.graphqlUnknownOperationName

\* Reportable without the APPSYNC_PASSTHROUGH_ERROR check.
ReportableBackendToo(err) ==
  err.cls \notin {"UserInputError", "SyntaxError"}

\* The errors the loop of didEncounterErrors does not skip.
Reportable(err) ==
  /\ CodeOf(err) # APPSYNC_PASSTHROUGH_ERROR
  /\ err.cls \notin {"UserInputError", "SyntaxError"}

\* What didEncounterErrors gives to captureException, in order.
DidEncounterCaptured(f, errs) ==
  IF Suppressed(f) THEN <<>> ELSE SelectSeq(errs, Reportable)

\* How many times didEncounterErrors calls flush.
DidEncounterFlushes(f) == IF Suppressed(f) THEN 0 ELSE 1

----------------------------------------------------------------------------
(* The state machine *)

Response(sent, data, errs) == [sent |-> sent, data |-> data, errors |-> errs]

NoResponse == Response(FALSE, Null, <<>>)

\* A delegated call: delegateToSchema's operation, fieldName and args.
Call(operation, fieldName, args) ==
  [operation |-> operation, fieldName |-> fieldName, args |-> args]

Init ==
  /\ apolloHandler = Undefined
  /\ discoveries = 0
  /\ pc = [i \in Inv |-> "idle"]
  /\ authorization = [i \in Inv |-> NoHeader]
  /\ lookups = [i \in Inv |-> <<>>]
  /\ context = [i \in Inv |-> NoContext]
  /\ request = [i \in Inv |-> NoRequest]
  /\ flags = [i \in Inv |-> NoFlags]
  /\ operationName = [i \in Inv |-> Undefined]
  /\ resolved = [i \in Inv |-> <<>>]
  /\ backendCalls = [i \in Inv |-> <<>>]
  /\ backendResult = [i \in Inv |-> NoResult]
  /\ errors = [i \in Inv |-> <<>>]
  /\ errorClass = [i \in Inv |-> Undefined]
  /\ captured = [i \in Inv |-> <<>>]
  /\ flushes = [i \in Inv |-> 0]
  /\ flushed = [i \in Inv |-> 0]
  /\ response = [i \in Inv |-> NoResponse]

pipelineVars == <<authorization, lookups, context, request, flags,
                  operationName, resolved, backendCalls, backendResult,
                  errors, errorClass, captured, flushes, flushed, response>>

\* handler, cold: apolloHandler is unset, createApolloServer is called and
\* starts introspectSchema; the invocation waits at the await.
HandlerCold(i) ==
  /\ pc[i] = "idle"
  /\ apolloHandler = Undefined
  /\ discoveries' = discoveries + 1
  /\ pc' = [pc EXCEPT ![i] = "introspecting"]
  /\ UNCHANGED <<apolloHandler, pipelineVars>>

\* handler, warm: apolloHandler is set and is called with the event.
HandlerWarm(i) ==
  /\ pc[i] = "idle"
  /\ apolloHandler # Undefined
  /\ pc' = [pc EXCEPT ![i] = "ContextBuilding"]
  /\ UNCHANGED <<apolloHandler, discoveries, pipelineVars>>

\* introspectSchema resolves: createApolloServer returns the server, handler
\* stores its handler in apolloHandler and calls it with the event.
IntrospectOk(i) ==
  /\ pc[i] = "introspecting"
  /\ apolloHandler' = CreatedHandler
  /\ pc' = [pc EXCEPT ![i] = "ContextBuilding"]
  /\ UNCHANGED <<discoveries, pipelineVars>>

\* IntrospectFail with apolloHandler assigned before the discovery is awaited:
\* the handler is cached although its discovery rejected.
IntrospectFailCachesHandler(i) ==
  /\ pc[i] = "introspecting"
  /\ apolloHandler' = CreatedHandler
  /\ pc' = [pc EXCEPT ![i] = "rejected"]
  /\ UNCHANGED <<discoveries, pipelineVars>>

\* introspectSchema rejects: createApolloServer and handler reject.
IntrospectFail(i) ==
  /\ pc[i] = "introspecting"
  /\ pc' = [pc EXCEPT ![i] = "rejected"]
  /\ UNCHANGED <<apolloHandler, discoveries, pipelineVars>>

\* The context function runs for the event's authorization header.
ContextBuilding(i) ==
  /\ pc[i] = "ContextBuilding"
  /\ \E h \in Headers, storeUp \in BOOLEAN :
       /\ authorization' = [authorization EXCEPT ![i] = h]
       /\ lookups' = [lookups EXCEPT ![i] = contextFn(h, storeUp).lookups]
       /\ context' = [context EXCEPT ![i] = contextFn(h, storeUp).context]
  /\ pc' = [pc EXCEPT ![i] = "RequestDidStart"]
  /\ UNCHANGED <<apolloHandler, discoveries, errorClass, request, flags, operationName,
                 resolved, backendCalls, backendResult, errors, captured,
                 flushes, flushed, response>>

\* errorTracker.requestDidStart with a context error: it throws, and the
\* thrown error is the request's only error.
RequestDidStartError(i) ==
  /\ pc[i] = "RequestDidStart"
  /\ context[i].hasContextError
  /\ LET err == context[i].contextError IN
       /\ captured' = [captured EXCEPT ![i] = @ \o ContextErrorCaptured(err)]
       /\ flushes' = [flushes EXCEPT ![i] = @ + ContextErrorFlushes(err)]
       /\ errors' = [errors EXCEPT ![i] = <<ContextErrorThrown(err)>>]
       /\ pc' = [pc EXCEPT ![i] = AfterFlushCall(ContextErrorFlushes(err))]
  /\ UNCHANGED <<apolloHandler, discoveries, errorClass, authorization, lookups, context,
                 request, flags, operationName, resolved, backendCalls,
                 backendResult, flushed, response>>

\* RequestDidStartOk without the test of context.contextError: the hooks are
\* installed and the request goes on whatever the context holds.
RequestDidStartIgnoresContextError(i) ==
  /\ pc[i] = "RequestDidStart"
  /\ flags' = [flags EXCEPT ![i] = NoFlags]
  /\ pc' = [pc EXCEPT ![i] = "Parsing"]
  /\ UNCHANGED <<apolloHandler, discoveries, errorClass, authorization, lookups, context,
                 request, operationName, resolved, backendCalls,
                 backendResult, errors, captured, flushes, flushed, response>>

\* errorTracker.requestDidStart without a context error: the three flags
\* start false and the request hooks are installed.
RequestDidStartOk(i) ==
  /\ pc[i] = "RequestDidStart"
  /\ ~context[i].hasContextError
  /\ flags' = [flags EXCEPT ![i] = NoFlags]
  /\ pc' = [pc EXCEPT ![i] = "Parsing"]
  /\ UNCHANGED <<apolloHandler, discoveries, errorClass, authorization, lookups, context,
                 request, operationName, resolved, backendCalls,
                 backendResult, errors, captured, flushes, flushed, response>>

\* The document is parsed; the parsing hook sees the outcome.
Parsing(i) ==
  /\ pc[i] = "Parsing"
  /\ \E r \in Requests :
       /\ request' = [request EXCEPT ![i] = r]
       /\ flags' = [flags EXCEPT ![i] = parsingDidEnd(@, ~r.syntaxOk)]
       /\ errors' = [errors EXCEPT ![i] = IF r.syntaxOk THEN @ ELSE <<ParseFailure>>]
       /\ errorClass' = [errorClass EXCEPT ![i] =
                           IF r.syntaxOk THEN @ ELSE "SyntaxError"]
       /\ pc' = [pc EXCEPT ![i] =
                   IF r.syntaxOk THEN "Validating" ELSE "DidEncounterErrors"]
  /\ UNCHANGED <<apolloHandler, discoveries, authorization, lookups, context,
                 operationName, resolved, backendCalls, backendResult,
                 captured, flushes, flushed, response>>

\* The document is validated; the validation hook sees the errors.
Validating(i) ==
  /\ pc[i] = "Validating"
  /\ LET validationErrors ==
           IF request[i].validOk THEN <<>> ELSE <<ValidationFailure>> IN
       /\ flags' = [flags EXCEPT ![i] = validationDidEnd(@, validationErrors)]
       /\ errors' = [errors EXCEPT ![i] = validationErrors]
       /\ errorClass' = [errorClass EXCEPT ![i] =
                           IF validationErrors = <<>> THEN @ ELSE "ValidationError"]
       /\ pc' = [pc EXCEPT ![i] =
                   IF validationErrors = <<>> THEN "OperationResolving"
                                              ELSE "DidEncounterErrors"]
  /\ UNCHANGED <<apolloHandler, discoveries, authorization, lookups, context,
                 request, operationName, resolved, backendCalls,
                 backendResult, captured, flushes, flushed, response>>

\* The operation is looked up and didResolveOperation runs.
OperationResolving(i) ==
  /\ pc[i] = "OperationResolving"
  /\ operationName' = [operationName EXCEPT ![i] = ResolvedOperationName(request[i])]
  /\ flags' = [flags EXCEPT ![i] =
                 didResolveOperation(@, ResolvedOperationName(request[i]))]
  /\ pc' = [pc EXCEPT ![i] = "Executing"]
  /\ UNCHANGED <<apolloHandler, discoveries, errorClass, authorization, lookups, context,
                 request, resolved, backendCalls, backendResult, errors,
                 captured, flushes, flushed, response>>

\* Execution when no operation was selected: it fails before any resolver.
ExecuteNoOperation(i) ==
  /\ pc[i] = "Executing"
  /\ getOperationAST(request[i]) = 0
  /\ errors' = [errors EXCEPT ![i] = <<OperationError>>]
  /\ pc' = [pc EXCEPT ![i] = "DidEncounterErrors"]
  /\ UNCHANGED <<apolloHandler, discoveries, errorClass, authorization, lookups, context,
                 request, flags, operationName, resolved, backendCalls,
                 backendResult, captured, flushes, flushed, response>>

\* The resolver of the selected operation's field delegates to the backend,
\* which answers; the Result Transform is applied to the answer.
ExecuteDelegate(i) ==
  /\ pc[i] = "Executing"
  /\ getOperationAST(request[i]) # 0
  /\ LET op == request[i].operations[getOperationAST(request[i])] IN
       /\ resolved' = [resolved EXCEPT ![i] = Append(@, op.fieldName)]
       /\ backendCalls' = [backendCalls EXCEPT ![i] =
            Append(@, Call(op.operation, op.fieldName,
                           ForwardedArgs(op.args, context[i])))]
  /\ \E raw \in BackendResults :
       LET result == transformResult(raw) IN
         /\ backendResult' = [backendResult EXCEPT ![i] = raw]
         /\ IF result.hasErrors
              THEN /\ errors' = [errors EXCEPT ![i] = result.errors]
                   /\ pc' = [pc EXCEPT ![i] = "DidEncounterErrors"]
              ELSE /\ pc' = [pc EXCEPT ![i] = "Formatting"]
                   /\ UNCHANGED errors
  /\ UNCHANGED <<apolloHandler, discoveries, errorClass, authorization, lookups, context,
                 request, flags, operationName, captured, flushes, flushed, response>>

\* The resolver delegates and the remote executor throws (fetch or
\* fetchResult.json() fails): the field fails with that exception.
ExecuteTransportFault(i) ==
  /\ pc[i] = "Executing"
  /\ getOperationAST(request[i]) # 0
  /\ LET op == request[i].operations[getOperationAST(request[i])] IN
       /\ resolved' = [resolved EXCEPT ![i] = Append(@, op.fieldName)]
       /\ backendCalls' = [backendCalls EXCEPT ![i] =
            Append(@, Call(op.operation, op.fieldName,
                           ForwardedArgs(op.args, context[i])))]
       /\ errors' = [errors EXCEPT ![i] =
            <<[TransportFault EXCEPT !.path = <<op.fieldName>>]>>]
  /\ pc' = [pc EXCEPT ![i] = "DidEncounterErrors"]
  /\ UNCHANGED <<apolloHandler, discoveries, errorClass, authorization, lookups, context,
                 request, flags, operationName, backendResult, captured,
                 flushes, flushed, response>>

\* DidEncounterErrors with the three flags declared outside requestDidStart:
\* the hook reads flags that any request may have set.
DidEncounterErrorsSharedFlags(i) ==
  /\ pc[i] = "DidEncounterErrors"
  /\ \E j \in Inv :
       /\ captured' = [captured EXCEPT ![i] = @ \o DidEncounterCaptured(flags[j], errors[i])]
       /\ flushes' = [flushes EXCEPT ![i] = @ + DidEncounterFlushes(flags[j])]
       /\ pc' = [pc EXCEPT ![i] = AfterFlushCall(DidEncounterFlushes(flags[j]))]
  /\ UNCHANGED <<apolloHandler, discoveries, errorClass, authorization, lookups, context,
                 request, flags, operationName, resolved, backendCalls,
                 backendResult, errors, flushed, response>>

\* didEncounterErrors
DidEncounterErrors(i) ==
  /\ pc[i] = "DidEncounterErrors"
  /\ captured' = [captured EXCEPT ![i] = @ \o DidEncounterCaptured(flags[i], errors[i])]
  /\ flushes' = [flushes EXCEPT ![i] = @ + DidEncounterFlushes(flags[i])]
  /\ pc' = [pc EXCEPT ![i] = AfterFlushCall(DidEncounterFlushes(flags[i]))]
  /\ UNCHANGED <<apolloHandler, discoveries, errorClass, authorization, lookups, context,
                 request, flags, operationName, resolved, backendCalls,
                 backendResult, errors, flushed, response>>

\* The flush a hook awaits resolves: the hook goes on (requestDidStart to
\* its throw, didEncounterErrors to its end) and the errors are formatted.
FlushResolved(i) ==
  /\ pc[i] = "Flushing"
  /\ flushed' = [flushed EXCEPT ![i] = @ + 1]
  /\ pc' = [pc EXCEPT ![i] = "Formatting"]
  /\ UNCHANGED <<apolloHandler, discoveries, errorClass, authorization, lookups, context,
                 request, flags, operationName, resolved, backendCalls,
                 backendResult, errors, captured, flushes, response>>

\* The data of the response: the transformed backend answer of a request
\* without errors, null otherwise.
ResponseData(errs, raw) ==
  IF errs = <<>> THEN transformResult(raw).data ELSE Null

\* formatError runs on every error, none for a request that succeeded, and
\* the response is sent.
Formatting(i) ==
  /\ pc[i] = "Formatting"
  /\ response' = [response EXCEPT ![i] =
                    Response(TRUE, ResponseData(errors[i], backendResult[i]),
                             FormatErrors(errors[i], errorClass[i]))]
  /\ pc' = [pc EXCEPT ![i] = "Done"]
  /\ UNCHANGED <<apolloHandler, discoveries, errorClass, authorization, lookups, context,
                 request, flags, operationName, resolved, backendCalls,
                 backendResult, errors, captured, flushes, flushed>>

\* handler returns the response; what belonged to the request is discarded.
Return(i) ==
  /\ pc[i] = "Done"
  /\ pc' = [pc EXCEPT ![i] = "returned"]
  /\ authorization' = [authorization EXCEPT ![i] = NoHeader]
  /\ lookups' = [lookups EXCEPT ![i] = <<>>]
  /\ context' = [context EXCEPT ![i] = NoContext]
  /\ request' = [request EXCEPT ![i] = NoRequest]
  /\ flags' = [flags EXCEPT ![i] = NoFlags]
  /\ operationName' = [operationName EXCEPT ![i] = Undefined]
  /\ resolved' = [resolved EXCEPT ![i] = <<>>]
  /\ backendCalls' = [backendCalls EXCEPT ![i] = <<>>]
  /\ backendResult' = [backendResult EXCEPT ![i] = NoResult]
  /\ errors' = [errors EXCEPT ![i] = <<>>]
  /\ errorClass' = [errorClass EXCEPT ![i] = Undefined]
  /\ captured' = [captured EXCEPT ![i] = <<>>]
  /\ flushes' = [flushes EXCEPT ![i] = 0]
  /\ flushed' = [flushed EXCEPT ![i] = 0]
  /\ response' = [response EXCEPT ![i] = NoResponse]
  /\ UNCHANGED <<apolloHandler, discoveries>>

Next ==
  \E i \in Inv :
    \/ HandlerCold(i)
    \/ HandlerWarm(i)
    \/ IntrospectOk(i)
    \/ IntrospectFail(i)
    \/ ContextBuilding(i)
    \/ RequestDidStartError(i)
    \/ RequestDidStartOk(i)
    \/ Parsing(i)
    \/ Validating(i)
    \/ OperationResolving(i)
    \/ ExecuteNoOperation(i)
    \/ ExecuteDelegate(i)
    \/ ExecuteTransportFault(i)
    \/ DidEncounterErrors(i)
    \/ FlushResolved(i)
    \/ Formatting(i)
    \/ Return(i)

Spec == Init /\ [][Next]_vars

\* The steps of invocation i's request between the call of apolloHandler
\* and the response.
PipelineStep(i) ==
  \/ ContextBuilding(i)
  \/ RequestDidStartError(i)
  \/ RequestDidStartOk(i)
  \/ Parsing(i)
  \/ Validating(i)
  \/ OperationResolving(i)
  \/ ExecuteNoOperation(i)
  \/ ExecuteDelegate(i)
  \/ ExecuteTransportFault(i)
  \/ DidEncounterErrors(i)
  \/ FlushResolved(i)
  \/ Formatting(i)

\* Every awaited promise of the pipeline settles and the event loop runs
\* its continuation: no request that can take a step waits forever.
SpecFair == Spec /\ \A i \in Inv : WF_vars(PipelineStep(i))

----------------------------------------------------------------------------
(* An error tracking service whose flush can fail *)

\* FictionalErrorTrackingService.flush only logs and always resolves.  With
\* a real service in its place (plugins.js 8-10) flush() may reject: neither
\* await (plugins.js 49 and 127) is guarded, so the hook rejects with it.
FlushRejected(i) ==
  /\ pc[i] = "Flushing"
  /\ flushed' = [flushed EXCEPT ![i] = @ + 1]
  /\ pc' = [pc EXCEPT ![i] = "HookRejected"]
  /\ UNCHANGED <<apolloHandler, discoveries, errorClass, authorization, lookups, context,
                 request, flags, operationName, resolved, backendCalls,
                 backendResult, errors, captured, flushes, response>>

\* A hook rejected: its rejection is the request's only error, formatted by
\* formatError like any other.
FormattingRejection(i) ==
  /\ pc[i] = "HookRejected"
  /\ response' = [response EXCEPT ![i] =
                    Response(TRUE, Null, FormatErrors(<<FlushFault>>, Undefined))]
  /\ pc' = [pc EXCEPT ![i] = "Done"]
  /\ UNCHANGED <<apolloHandler, discoveries, errorClass, authorization, lookups, context,
                 request, flags, operationName, resolved, backendCalls,
                 backendResult, errors, captured, flushes, flushed>>

NextFlush ==
  \/ Next
  \/ \E i \in Inv :
       \/ FlushRejected(i)
       \/ FormattingRejection(i)

SpecFlush == Init /\ [][NextFlush]_vars

----------------------------------------------------------------------------
(* Properties *)

Range(seq) == {seq[n] : n \in DOMAIN seq}

\* The invocation's context function has returned and its request has not
\* been discarded yet.
ContextBuilt(i) ==
  pc[i] \in {"RequestDidStart", "Parsing", "Validating", "OperationResolving",
             "Executing", "DidEncounterErrors", "Flushing", "Formatting",
             "Done"}

\* The response holds exactly one error, of the authentication class, with
\* the given message.
AuthenticationFailure(resp, message) ==
  /\ resp.sent
  /\ Len(resp.errors) = 1
  /\ resp.errors[1].cls = "AuthenticationError"
  /\ CodeOf(resp.errors[1]) = UNAUTHENTICATED
  /\ resp.errors[1].message = message

\* The header of invocation i carries a credential the store answers for
\* and holds no affinity for.
UnknownCredential(i) ==
  /\ ContextBuilt(i)
  /\ Truthy(authorization[i])
  /\ lookups[i] # <<>>
  /\ ~lookups[i][1].rejected
  /\ getAffinityFromApiKey(ApiUsersTable(Trim(authorization[i].value))) = Null

\* C1: a request whose credential has no record in the store ends with the
\* authentication error 'Invalid authorization header'; no resolver runs and
\* no delegated call is made for it.
C1_UnknownCredentialRejected ==
  \A i \in Inv :
    UnknownCredential(i) =>
      /\ resolved[i] = <<>>
      /\ backendCalls[i] = <<>>
      /\ pc[i] \in {"RequestDidStart", "Formatting", "Done"}
      /\ pc[i] = "Done" => AuthenticationFailure(response[i], InvalidHeaderMessage)

C1_Witness ==
  \E i \in Inv :
    /\ UnknownCredential(i)
    /\ pc[i] = "Done"
    /\ lookups[i][1].apiKey = <<"b">>

\* C2: a request without an authorization header, or with an empty one, gets
\* the authentication error 'Missing authorization header' from context
\* construction, without any read of the credential store; it ends with that
\* error and no resolver runs.
C2_MissingHeaderRejected ==
  \A i \in Inv :
    (ContextBuilt(i) /\ ~Truthy(authorization[i])) =>
      /\ context[i].hasContextError
      /\ ~context[i].hasAffinity
      /\ context[i].contextError.cls = "AuthenticationError"
      /\ context[i].contextError.message = MissingHeaderMessage
      /\ lookups[i] = <<>>
      /\ resolved[i] = <<>>
      /\ backendCalls[i] = <<>>
      /\ pc[i] \in {"RequestDidStart", "Formatting", "Done"}
      /\ pc[i] = "Done" => AuthenticationFailure(response[i], MissingHeaderMessage)

C2_Witness ==
  \E i, j \in Inv :
    /\ pc[i] = "Done" /\ ~authorization[i].present
    /\ pc[j] = "Done" /\ authorization[j] = Header(<<>>)

\* The number of invocations whose discovery failed.
FailedDiscoveries == Cardinality({i \in Inv : pc[i] = "rejected"})

\* C3: across the handler invocations of a cold start, schema discovery is
\* started at most once (a discovery that failed may be started again).
C3_DiscoveryStartedAtMostOnce == discoveries - FailedDiscoveries <= 1

\* requestDidStart has run for invocation i, whose context holds an error.
ContextErrorHandled(i) ==
  /\ pc[i] \in {"Formatting", "Done"}
  /\ context[i].hasContextError

\* The response holds exactly one error, the generic one without extensions.
GenericFailure(resp) ==
  /\ resp.sent
  /\ Len(resp.errors) = 1
  /\ resp.errors[1].message = GenericMessage
  /\ ~resp.errors[1].hasExt

\* C4: with a context error in the request context no resolver runs; an
\* authentication error reaches the caller with its own message and nothing
\* is captured or flushed; any other error is captured exactly once, the
\* sink is flushed, and the caller sees only 'Internal Server Error'.
C4_ContextErrorRouting ==
  \A i \in Inv :
    (ContextBuilt(i) /\ context[i].hasContextError) =>
      /\ resolved[i] = <<>>
      /\ backendCalls[i] = <<>>
      /\ pc[i] \in {"RequestDidStart", "Flushing", "Formatting", "Done"}
      /\ IF context[i].contextError.cls = "AuthenticationError"
           THEN /\ captured[i] = <<>>
                /\ flushes[i] = 0
                /\ pc[i] = "Done" =>
                     AuthenticationFailure(response[i], context[i].contextError.message)
           ELSE /\ ContextErrorHandled(i) =>
                     (captured[i] = <<context[i].contextError>> /\ flushes[i] = 1)
                /\ pc[i] = "Done" => GenericFailure(response[i])

C4_Witness ==
  \E i, j \in Inv :
    /\ pc[i] = "Done" /\ context[i].hasContextError
    /\ context[i].contextError.cls = "AuthenticationError"
    /\ pc[j] = "Done" /\ context[j].hasContextError
    /\ context[j].contextError.cls # "AuthenticationError"
    /\ flushes[j] = 1

\* The credential-store read of invocation i was rejected.
LookupUnavailable(i) ==
  /\ ContextBuilt(i)
  /\ lookups[i] # <<>>
  /\ lookups[i][1].rejected

\* C5 (as claimed): a rejected credential-store read reaches the caller as an
\* authentication-class failure, like a missing or invalid credential.
C5_LookupFaultIsAuthenticationClass ==
  \A i \in Inv :
    (LookupUnavailable(i) /\ pc[i] = "Done") =>
      /\ Len(response[i].errors) = 1
      /\ response[i].errors[1].cls = "AuthenticationError"
      /\ CodeOf(response[i].errors[1]) = UNAUTHENTICATED

\* C5 (amended): a rejected credential-store read is kept as a context error
\* that is not authentication-class: it is captured by the sink once, the
\* sink is flushed, and the caller sees only 'Internal Server Error'.
C5_LookupFaultIsInternal ==
  \A i \in Inv :
    LookupUnavailable(i) =>
      /\ context[i].hasContextError
      /\ context[i].contextError = LookupFault
      /\ context[i].contextError.cls # "AuthenticationError"
      /\ resolved[i] = <<>>
      /\ ContextErrorHandled(i) =>
           (captured[i] = <<LookupFault>> /\ flushes[i] = 1)
      /\ pc[i] = "Done" =>
           (GenericFailure(response[i]) /\ response[i].errors[1].cls = "Error")

C5_Witness ==
  \E i \in Inv :
    /\ LookupUnavailable(i)
    /\ pc[i] = "Done"
    /\ captured[i] = <<LookupFault>>

\* How many times x occurs in seq.
Count(seq, x) == Cardinality({n \in DOMAIN seq : seq[n] = x})

\* didEncounterErrors has run for invocation i.
ErrorsReported(i) ==
  /\ pc[i] \in {"Formatting", "Done"}
  /\ ~context[i].hasContextError

\* Error n of invocation i is an exception thrown locally while a field was
\* resolved: not a backend error, not one of Apollo's subclassed errors.
LocalException(i, n) ==
  /\ resolved[i] # <<>>
  /\ n \in DOMAIN errors[i]
  /\ errors[i][n].cls = "Error"
  /\ CodeOf(errors[i][n]) = Undefined

\* C6: an uncaught local exception raised during resolution reaches the
\* caller as 'Internal Server Error' without extensions, and is passed to
\* captureException exactly once for its request.
C6_LocalExceptionMaskedAndCaptured ==
  \A i \in Inv : \A n \in DOMAIN errors[i] :
    LocalException(i, n) =>
      /\ ErrorsReported(i) => Count(captured[i], errors[i][n]) = 1
      /\ pc[i] = "Done" =>
           /\ Len(response[i].errors) = Len(errors[i])
           /\ response[i].errors[n].message = GenericMessage
           /\ ~response[i].errors[n].hasExt

C6_Witness ==
  \E i \in Inv :
    /\ pc[i] = "Done"
    /\ LocalException(i, 1)
    /\ errors[i][1].message # GenericMessage
    /\ captured[i] = errors[i]

\* The backend answered invocation i with an error list.
BackendFailed(i) == backendResult[i].hasErrors

C8_BackendExtensionsIntact ==
  \A i \in Inv :
    (BackendFailed(i) /\ pc[i] = "Done") =>
      \A n \in DOMAIN backendResult[i].errors :
        backendResult[i].errors[n].hasExt =>
          /\ response[i].errors[n].hasExt
          /\ response[i].errors[n].ext = backendResult[i].errors[n].ext

\* The credential of invocation i as a string, as sent and as looked up.
CredentialStrings(i) ==
  IF ~authorization[i].present THEN {}
  ELSE IF Trim(authorization[i].value) = <<"a">> THEN {"a", " a "}
  ELSE IF Trim(authorization[i].value) = <<"b">> THEN {"b"}
  ELSE IF Trim(authorization[i].value) = <<"c">> THEN {"c"}
  ELSE {""}

\* The selected operation of invocation i's request.
SelectedOp(i) == request[i].operations[getOperationAST(request[i])]

\* C9: the arguments of every delegated call are the caller's arguments
\* plus the affinity key set to the context's affinity, also when the caller
\* supplied a value under that key; the credential is not among them.
C9_IdentityInjected ==
  \A i \in Inv : \A n \in DOMAIN backendCalls[i] :
    LET call == backendCalls[i][n] IN
      /\ context[i].hasAffinity
      /\ call.fieldName = SelectedOp(i).fieldName
      /\ call.operation = SelectedOp(i).operation
      /\ DOMAIN call.args = (DOMAIN SelectedOp(i).args) \cup {AffinityKey}
      /\ call.args[AffinityKey] = context[i].affinity
      /\ call.args[AffinityKey] =
           getAffinityFromApiKey(ApiUsersTable(Trim(authorization[i].value)))
      /\ \A k \in (DOMAIN SelectedOp(i).args) \ {AffinityKey} :
           call.args[k] = SelectedOp(i).args[k]
      /\ \A k \in DOMAIN call.args : call.args[k] \notin CredentialStrings(i)

C9_Witness ==
  \E i, j \in Inv :
    /\ backendCalls[i] # <<>>
    /\ backendCalls[i][1].fieldName = "sayHello"
    /\ backendCalls[i][1].args = [name |-> "x", affinity |-> "dev-42"]
    /\ backendCalls[j] # <<>>
    /\ backendCalls[j][1].fieldName = "someRandomMutation"
    /\ SelectedOp(j).args[AffinityKey] = "evil"
    /\ backendCalls[j][1].args[AffinityKey] = "dev-42"

\* C10: when one of the three flags is set as didEncounterErrors runs,
\* nothing of the request is passed to the sink; a request whose query does
\* not parse returns an error to the caller and captures nothing.
C10_CallerInputFaultsNotReported ==
  \A i \in Inv :
    /\ (ErrorsReported(i) /\ Suppressed(flags[i])) =>
         (captured[i] = <<>> /\ flushes[i] = 0)
    /\ (ErrorsReported(i) /\ request[i].query # Undefined /\ ~request[i].syntaxOk) =>
         /\ flags[i].graphqlParsingFailure
         /\ resolved[i] = <<>>
         /\ captured[i] = <<>>
         /\ pc[i] = "Done" =>
              (Len(response[i].errors) = 1 /\ response[i].errors[1].cls = "SyntaxError")

C10_Witness ==
  \E i, j \in Inv :
    /\ pc[i] = "Done"
    /\ flags[i].graphqlParsingFailure
    /\ response[i].errors # <<>>
    /\ pc[j] = "Done"
    /\ flags[j].graphqlValidationFailure
    /\ response[j].errors # <<>>

\* The messages of an error list, as the caller reads them.
Messages(errs) == [n \in DOMAIN errs |-> errs[n].message]

\* C11: a rejected flush does not change what the caller receives: the
\* response carries the messages it would carry had the flush resolved.
C11_FlushFailureDoesNotFailRequest ==
  \A i \in Inv :
    (pc[i] = "Done" /\ errors[i] # <<>>) =>
      Messages(response[i].errors) = Messages(FormatErrors(errors[i], errorClass[i]))

\* The sink has taken every capture of invocation i before its one flush
\* call, and no capture follows the call.
CapturesPrecedeFlush ==
  \A i \in Inv :
    (flushes[i] >= 1 /\ pc'[i] # "returned") =>
      (captured'[i] = captured[i] /\ flushes'[i] = flushes[i])

\* The flush of invocation i has completed by the time its response is
\* formatted and sent.
FlushAwaited ==
  \A i \in Inv :
    /\ flushes[i] <= 1
    /\ flushed[i] <= flushes[i]
    /\ pc[i] \in {"Formatting", "Done"} =>
         /\ flushed[i] = flushes[i]
         /\ captured[i] # <<>> => flushes[i] = 1

\* C12: in a request with a capture, the captures come first, then one flush
\* that is awaited, and the request is Done only after that flush completed;
\* flush is called at most once per request.
C12_CapturesThenOneAwaitedFlush == []FlushAwaited /\ [][CapturesPrecedeFlush]_vars

C12_Witness ==
  \E i \in Inv : pc[i] = "Done" /\ captured[i] # <<>> /\ flushes[i] = 1 /\ flushed[i] = 1

\* The request of invocation i met an internal fault: its context was not
\* built for a reason other than authentication, or a local exception was
\* thrown while a field was resolved.
InternalFault(i) ==
  \/ context[i].hasContextError /\ context[i].contextError.cls # "AuthenticationError"
  \/ \E n \in DOMAIN errors[i] : LocalException(i, n)

\* The exception behind the internal fault of invocation i.
FaultContent(i) ==
  IF context[i].hasContextError THEN context[i].contextError
  ELSE errors[i][CHOOSE n \in DOMAIN errors[i] : LocalException(i, n)]

\* The errors the caller of invocation i receives for its internal faults.
InternalFaultErrors(i) ==
  IF context[i].hasContextError THEN Range(response[i].errors)
  ELSE {response[i].errors[n] : n \in {m \in DOMAIN errors[i] : LocalException(i, m)}}

\* C13: any two requests that end in an internal fault give their callers
\* errors with the same message and without extensions, whatever the
\* exceptions behind them held.
C13_InternalFaultsIndistinguishable ==
  \A i, j \in Inv :
    (pc[i] = "Done" /\ pc[j] = "Done" /\ InternalFault(i) /\ InternalFault(j)) =>
      /\ InternalFaultErrors(i) # {}
      /\ \A e \in InternalFaultErrors(i) : \A f \in InternalFaultErrors(j) :
           /\ e.message = f.message
           /\ ~e.hasExt /\ ~f.hasExt
           /\ ~e.stack /\ ~f.stack

C13_Witness ==
  \E i, j \in Inv :
    /\ pc[i] = "Done" /\ pc[j] = "Done"
    /\ InternalFault(i) /\ InternalFault(j)
    /\ context[i].hasContextError /\ ~context[j].hasContextError
    /\ FaultContent(i).message # FaultContent(j).message

\* The request of invocation i ended with errors that are safe to disclose:
\* an authentication error from context construction, or the caller's
\* malformed or invalid document.
SafeToDisclose(i) ==
  \/ context[i].hasContextError /\ context[i].contextError.cls = "AuthenticationError"
  \/ errors[i] # <<>> /\ errorClass[i] \in {"SyntaxError", "ValidationError"}

\* The errors of invocation i as they were raised.
RaisedErrors(i) ==
  IF context[i].hasContextError THEN <<context[i].contextError>> ELSE errors[i]

\* C14 (as claimed): authentication-class and caller-input-class errors
\* reach the caller with their original message and without extensions.
C14_SafeErrorsWithoutExtensions ==
  \A i \in Inv :
    (pc[i] = "Done" /\ SafeToDisclose(i)) =>
      /\ Len(response[i].errors) = Len(RaisedErrors(i))
      /\ \A n \in DOMAIN response[i].errors :
           /\ response[i].errors[n].message = RaisedErrors(i)[n].message
           /\ ~response[i].errors[n].hasExt

\* C14 (amended): authentication-class and caller-input-class errors reach
\* the caller with their original message and with extensions that hold the
\* code of their class and nothing else.
C14_SafeErrorsKeepOnlyCode ==
  \A i \in Inv :
    (pc[i] = "Done" /\ SafeToDisclose(i)) =>
      /\ Len(response[i].errors) = Len(RaisedErrors(i))
      /\ \A n \in DOMAIN response[i].errors :
           /\ response[i].errors[n].message = RaisedErrors(i)[n].message
           /\ response[i].errors[n].message # GenericMessage
           /\ response[i].errors[n].hasExt
           /\ DOMAIN response[i].errors[n].ext = {"code"}
           /\ CodeOf(response[i].errors[n]) = ClassCode(response[i].errors[n].cls)
           /\ CodeOf(response[i].errors[n]) # INTERNAL_SERVER_ERROR

C14_Witness ==
  \E i, j \in Inv :
    /\ pc[i] = "Done" /\ SafeToDisclose(i) /\ context[i].hasContextError
    /\ pc[j] = "Done" /\ SafeToDisclose(j) /\ errorClass[j] = "SyntaxError"
    /\ response[j].errors # <<>>

\* The error carries a stack trace or the internal-exception field.
ShowsInternals(err) ==
  \/ err.stack
  \/ err.hasExt /\ "exception" \in DOMAIN err.ext

\* C15: no error of a response, of whatever class, carries a stack trace or
\* the internal-exception field extensions.exception.
C15_NoInternalsCrossBoundary ==
  \A i \in Inv : \A n \in DOMAIN response[i].errors :
    ~ShowsInternals(response[i].errors[n])

C15_Witness ==
  \E i, j \in Inv :
    /\ pc[i] = "Done" /\ BackendFailed(i) /\ response[i].errors # <<>>
    /\ RaisedErrors(i)[1].stack
    /\ pc[j] = "Done" /\ SafeToDisclose(j) /\ response[j].errors # <<>>
    /\ response[j].errors[1].hasExt
    /\ RaisedErrors(j)[1].stack

\* The stages of one request, in their order.
Stages ==
  <<"ContextBuilding", "Parsing", "Validating", "OperationResolving",
    "Executing", "Formatting", "Done">>

\* The stage a position of the pipeline belongs to: requestDidStart closes
\* context building; didEncounterErrors and its flush open formatting.
StageOf(p) ==
  IF p = "RequestDidStart" THEN "ContextBuilding"
  ELSE IF p \in {"DidEncounterErrors", "Flushing"} THEN "Formatting"
  ELSE p

\* The number of the stage of position p, 0 outside a request.
StageIndex(p) ==
  IF StageOf(p) \in Range(Stages)
    THEN CHOOSE n \in DOMAIN Stages : Stages[n] = StageOf(p)
    ELSE 0

\* The request of invocation i has failed.
Failed(i) == errors[i] # <<>>

\* A step keeps invocation i in its stage, or moves it to the next stage, or
\* moves a failed request to Formatting; before Formatting only a request
\* that has not failed moves on.  A request starts at ContextBuilding and
\* is left only from Done.
StageStep ==
  \A i \in Inv :
    LET a == StageIndex(pc[i])
        b == StageIndex(pc'[i]) IN
      /\ a = 0 => b = 0 \/ pc'[i] = "ContextBuilding"
      /\ (a # 0 /\ b = 0) => pc[i] = "Done"
      /\ (a # 0 /\ b # 0) =>
           \/ b = a
           \/ b = a + 1 /\ (b < StageIndex("Formatting") => ~Failed(i)')
           \/ Stages[b] = "Formatting" /\ Failed(i)'

\* No stage before Formatting holds a failed request, a context error is
\* seen by no stage after context building, and a resolver has run only for
\* a request whose context, document and operation are all good.
StageInvariant ==
  \A i \in Inv :
    /\ StageIndex(pc[i]) \in 1..StageIndex("Executing") => ~Failed(i)
    /\ StageIndex(pc[i]) \in StageIndex("Parsing")..StageIndex("Executing") =>
         context[i].hasAffinity
    /\ pc[i] \in {"OperationResolving", "Executing"} =>
         (request[i].syntaxOk /\ request[i].validOk)
    /\ pc[i] = "Executing" => operationName[i] # Undefined
    /\ (resolved[i] # <<>> \/ backendCalls[i] # <<>>) =>
         /\ context[i].hasAffinity
         /\ request[i].syntaxOk /\ request[i].validOk
         /\ getOperationAST(request[i]) # 0
         /\ StageIndex(pc[i]) >= StageIndex("Formatting")

HoldsIdentity(i) ==
  /\ context[i].hasAffinity
  /\ ~Falsy(context[i].affinity) /\ context[i].affinity # Undefined
  /\ ~context[i].hasContextError

\* The context of invocation i holds a context error and no identity.
HoldsContextError(i) ==
  /\ context[i].hasContextError
  /\ context[i].contextError # NoError
  /\ ~context[i].hasAffinity

\* Once built, the context holds an identity or a context error, one of the
\* two and not both.
ContextExclusive ==
  \A i \in Inv :
    ContextBuilt(i) =>
      /\ HoldsIdentity(i) \/ HoldsContextError(i)
      /\ ~(context[i].hasAffinity /\ context[i].hasContextError)

\* No step after context construction changes the context of a request.
ContextKept ==
  \A i \in Inv :
    (ContextBuilt(i) /\ ContextBuilt(i)') => context'[i] = context[i]

\* C17: after context construction the request context holds exactly one of
\* a caller identity and a context error, for every header and every outcome
\* of the store lookup, and no hook or resolver changes it afterwards.
C17_ContextHoldsExactlyOne == []ContextExclusive /\ [][ContextKept]_vars

C17_Witness ==
  \E i, j \in Inv :
    /\ pc[i] = "Done" /\ HoldsIdentity(i) /\ backendCalls[i] # <<>>
    /\ pc[j] = "Done" /\ HoldsContextError(j) /\ LookupUnavailable(j)

\* The identity the store holds for the credential of invocation i.
OwnAffinity(i) == getAffinityFromApiKey(ApiUsersTable(Trim(authorization[i].value)))

\* The flags of invocation i as its own document sets them.
OwnFlags(i) ==
  Flags(request[i] # NoRequest /\ ~request[i].syntaxOk,
        request[i] # NoRequest /\ request[i].syntaxOk /\ ~request[i].validOk
          /\ pc[i] # "Validating",
        /\ request[i] # NoRequest /\ request[i].syntaxOk /\ request[i].validOk
        /\ StageIndex(pc[i]) > StageIndex("OperationResolving")
        /\ operationName[i] = Undefined)

\* The one delegated call the request of invocation i makes, from its own
\* operation and its own credential.
OwnCall(i) ==
  Call(SelectedOp(i).operation, SelectedOp(i).fieldName,
       With(SelectedOp(i).args, AffinityKey, OwnAffinity(i)))

\* C18: the flags, the identity, the store lookup, the captures and the
\* delegated arguments of a request follow from that request's own header
\* and document and the answers it got, whatever other requests do; a
\* failed document of one request does not suppress the captures of
\* another; two requests with the same credential and operation make a
\* lookup and a delegation each, with equal backend arguments.
C18_RequestsIndependent ==
  \A i \in Inv :
    /\ flags[i] = OwnFlags(i)
    /\ (ContextBuilt(i) /\ Truthy(authorization[i])) =>
         /\ Len(lookups[i]) = 1
         /\ lookups[i][1].apiKey = Trim(authorization[i].value)
    /\ (ContextBuilt(i) /\ context[i].hasAffinity) => context[i].affinity = OwnAffinity(i)
    /\ ErrorsReported(i) => captured[i] = DidEncounterCaptured(OwnFlags(i), errors[i])
    /\ backendCalls[i] # <<>> => backendCalls[i] = <<OwnCall(i)>>
    /\ \A j \in Inv \ {i} :
         (/\ pc[i] = "Done" /\ pc[j] = "Done"
          /\ authorization[i] = authorization[j] /\ request[i] = request[j]
          /\ backendCalls[i] # <<>> /\ backendCalls[j] # <<>>) =>
           /\ Len(lookups[i]) = 1 /\ Len(lookups[j]) = 1
           /\ Len(backendCalls[i]) = 1 /\ Len(backendCalls[j]) = 1
           /\ backendCalls[i][1].args = backendCalls[j][1].args

\* Two finished requests with the same credential and the same operation.
C18_Witness ==
  \E i, j \in Inv :
    /\ i # j /\ pc[i] = "Done" /\ pc[j] = "Done"
    /\ authorization[i] = authorization[j] /\ request[i] = request[j]
    /\ response[i].data # Null /\ response[j].data # Null
    /\ backendCalls[i] # <<>> /\ backendCalls[j] # <<>>
    /\ lookups[i] # <<>> /\ lookups[j] # <<>>

\* The caller of invocation i named no operation and its document holds
\* more than one.
UnnamedAmongSeveral(i) ==
  request[i].operationName = Undefined /\ Len(request[i].operations) > 1

\* didResolveOperation has run for the request of invocation i.
OperationResolved(i) ==
  /\ StageIndex(pc[i]) > StageIndex("OperationResolving")
  /\ request[i] # NoRequest /\ request[i].syntaxOk /\ request[i].validOk

\* C19: after operation resolution the flag graphqlUnknownOperationName is
\* set exactly for a request that names no operation and holds several; in
\* every other request it is unset, and the request's internal faults are
\* captured.
C19_UnknownOperationNameFlag ==
  \A i \in Inv :
    OperationResolved(i) =>
      /\ flags[i].graphqlUnknownOperationName = UnnamedAmongSeveral(i)
      /\ (~UnnamedAmongSeveral(i) /\ ErrorsReported(i)) =>
           \A n \in DOMAIN errors[i] :
             LocalException(i, n) => errors[i][n] \in Range(captured[i])

\* How a step may change the cached handler and start a discovery:
\* apolloHandler is assigned only as an invocation's discovery succeeds and
\* is never unset; an invocation that enters handler calls the cached
\* handler and starts no discovery if there is one, and starts a discovery
\* if there is none; a failed discovery rejects its invocation and leaves
\* apolloHandler as it was.
HandlerStep ==
  /\ apolloHandler' # apolloHandler =>
       \E i \in Inv :
         /\ pc[i] = "introspecting" /\ pc'[i] = "ContextBuilding"
         /\ apolloHandler' = CreatedHandler
  /\ apolloHandler # Undefined => apolloHandler' # Undefined
  /\ discoveries' # discoveries =>
       /\ apolloHandler = Undefined
       /\ discoveries' = discoveries + 1
       /\ \E i \in Inv : pc[i] = "idle" /\ pc'[i] = "introspecting"
  /\ \A i \in Inv :
       /\ (pc[i] = "idle" /\ pc'[i] # "idle") =>
            IF apolloHandler # Undefined
              THEN /\ pc'[i] = "ContextBuilding"
                   /\ discoveries' = discoveries
                   /\ apolloHandler' = apolloHandler
              ELSE /\ pc'[i] = "introspecting"
                   /\ discoveries' = discoveries + 1
       /\ (pc[i] # "rejected" /\ pc'[i] = "rejected") =>
            /\ pc[i] = "introspecting"
            /\ apolloHandler' = apolloHandler
            /\ response'[i] = NoResponse

\* An invocation whose discovery failed has no context and no response, and
\* no request is in the pipeline without a cached handler.
HandlerInvariant ==
  \A i \in Inv :
    /\ pc[i] = "rejected" =>
         (~response[i].sent /\ context[i] = NoContext /\ lookups[i] = <<>>)
    /\ StageIndex(pc[i]) # 0 => apolloHandler = CreatedHandler

\* C20: apolloHandler is set only by an invocation whose discovery
\* succeeded and is never cleared; once it is set, an invocation entering
\* handler reuses it and starts no discovery; a failed discovery leaves it
\* unset, its invocation rejects without a response, and the next
\* invocation starts discovery again.
C20_HandlerCachedOnSuccessOnly == []HandlerInvariant /\ [][HandlerStep]_vars

\* A discovery failed with no handler cached, and the next invocation made a
\* discovery of its own and answered its request.
C20_Witness ==
  \E i, j \in Inv :
    /\ pc[i] = "rejected"
    /\ pc[j] = "Done" /\ response[j].sent
    /\ apolloHandler = CreatedHandler
    /\ discoveries > 1

====
